---- MODULE Spec2Model ----
(***************************************************************************)
(* PywerMeter: the report store (write_test_row_to_excel), the report      *)
(* calculator (PowerCalc.add_averages, PowerCalc.totalAnnualPower) and the *)
(* test scheduler (run_power_tests).                                       *)
(*                                                                         *)
(* Text is a sequence of one-character strings, so that lower(), replace() *)
(* and comparison of header names are computed as the code computes them.  *)
(* Numbers in cells are fixed-point tenths (the sample text "10.3" is the  *)
(* number 103); the sample texts of the model carry at most one fractional *)
(* digit.                                                                  *)
(***************************************************************************)
EXTENDS Integers, Sequences, FiniteSets, TLC

VARIABLES
    fileExists,   \* os.path.exists(workbook_filename)
    sheets,       \* the workbook on disk: sheet name -> grid
    call,         \* the report operation that ran last, with its arguments
    ret,          \* its return value: "none", "ok" (True) or "fail" (False)
    missing,      \* the missing_columns list totalAnnualPower printed last
    prev,         \* the file and the operation before the last operation
    file_locked,  \* the last operation met PermissionError: the file was open
                  \* in another program
    config,       \* test_settings: the test entries in declaration order
    pc,           \* where run_power_tests stands
    default_excel_file,   \* "default", or "timestamped" after the answer 'n'
    test_numbers, \* the sorted test numbers
    idx,          \* the position of the loop in test_numbers
    now,          \* time.time(), in seconds
    global_start_time,
    elapsed_time, \* in seconds (the code's minutes times 60)
    dev,          \* the serial device of serialFunction: "none", "open", "closed"
    end_time,
    samples,
    sample_count,
    recent_samples,
    queries,      \* what each readSerialData call of this run returned, in order
    exit_path,    \* how the polling loop of this run ended
    close_calls,  \* the dev.close() calls of this run
    open_channels, \* the serial devices opened and not closed so far
    started,      \* the Sampler starts so far: test number and global elapsed time
    processed,    \* the test numbers the loop has taken up so far, in order
    time_value,   \* the argument of a parse_time_value call
    parse_result, \* what the call returned, in seconds: <<>> before it returns
    roundtrip,    \* the time every query of the channel takes (0: it varies)
    choice        \* the option display_menu returned last ("none": none yet)

\* what the program is given: the configuration, a value to parse
inputVars == <<config, time_value, parse_result, roundtrip, choice>>
storeVars == <<fileExists, sheets, call, ret, missing, prev, file_locked>>
samplerVars ==
    <<dev, end_time, samples, sample_count, recent_samples, queries,
      exit_path, close_calls, open_channels>>
timerVars == <<now, global_start_time, elapsed_time>>
schedVars == <<inputVars, pc, default_excel_file, test_numbers, idx, timerVars,
               samplerVars, started, processed>>
vars == <<storeVars, schedVars>>

---------------------------------------------------------------------------
(* Text *)

DigitChars == <<"0", "1", "2", "3", "4", "5", "6", "7", "8", "9">>
UpperChars == <<"A", "B", "C", "D", "E", "F", "G", "H", "I", "J", "K", "L", "M",
                "N", "O", "P", "Q", "R", "S", "T", "U", "V", "W", "X", "Y", "Z">>
LowerChars == <<"a", "b", "c", "d", "e", "f", "g", "h", "i", "j", "k", "l", "m",
                "n", "o", "p", "q", "r", "s", "t", "u", "v", "w", "x", "y", "z">>

IndexOf(seq, c) == CHOOSE i \in 1..Len(seq) : seq[i] = c
Has(seq, c) == \E i \in 1..Len(seq) : seq[i] = c

\* str.lower()
StrLower(s) ==
    [i \in 1..Len(s) |->
        IF Has(UpperChars, s[i]) THEN LowerChars[IndexOf(UpperChars, s[i])] ELSE s[i]]

\* str.replace(' ', '')
RemoveSpaces(s) == SelectSeq(s, LAMBDA c : c # " ")

\* the normalisation as it would be without the removal of spaces
NormalizeNameKeepSpaces(s) == StrLower(s)

\* str(col_name).lower().replace(' ', '')
NormalizeName(s) == RemoveSpaces(StrLower(s))

SheetName == "Power Data"
AveragesText == <<"A", "v", "e", "r", "a", "g", "e", "s">>
TapText == <<"T", "o", "t", "a", "l", " ", "A", "n", "n", "u", "a", "l", " ",
             "P", "o", "w", "e", "r">>
UnnamedText == <<"U", "n", "n", "a", "m", "e", "d", ":", " ">>

OffText == <<"o", "f", "f">>
ShortIdleText == <<"s", "h", "o", "r", "t", "i", "d", "l", "e">>
LongIdleText == <<"l", "o", "n", "g", "i", "d", "l", "e">>
SleepText == <<"s", "l", "e", "e", "p">>
columns_needed == <<OffText, ShortIdleText, LongIdleText, SleepText>>

---------------------------------------------------------------------------
(* Cells and grids *)

Blank == [t |-> "blank", n |-> 0, s |-> <<>>, refs |-> <<>>]
NumCell(x) == [t |-> "num", n |-> x, s |-> <<>>, refs |-> <<>>]
StrCell(x) == [t |-> "str", n |-> 0, s |-> x, refs |-> <<>>]
\* '=AVERAGE({col}{first}:{col}{last})'
AvgCell(col, first, last) ==
    [t |-> "avg", n |-> 0, s |-> <<>>, refs |-> <<col, first, last>>]
\* '=8760/1000*({a}2*0.15+{b}2*0.45+{c}2*0.1+{d}2*0.3)': refs = <<a, b, c, d>>
TapCell(a, b, c, d) ==
    [t |-> "tap", n |-> 0, s |-> <<>>, refs |-> <<a, b, c, d>>]

MaxOf(S) == CHOOSE x \in S : \A y \in S : y <= x

BlankRow(w) == [j \in 1..w |-> Blank]
PadTo(r, w) == r \o BlankRow(w - Len(r))

EmptyGrid == [rows |-> <<>>, merged |-> 0]

\* ws.max_column
MaxColumn(g) ==
    IF g.rows = <<>> THEN 1
    ELSE MaxOf({Len(g.rows[i]) : i \in 1..Len(g.rows)} \cup {1})

\* ws[f'{col}{row}'].value; the cells of a merged range other than its
\* top-left one have no value
CellAt(g, r, c) ==
    IF r <= Len(g.rows) /\ c <= Len(g.rows[r]) THEN g.rows[r][c] ELSE Blank

\* ws[f'{col}{row}'] = v
SetCell(g, r, c, v) ==
    LET h == MaxOf({Len(g.rows), r})
        w == MaxOf({MaxColumn(g), c})
        old == [i \in 1..h |-> IF i <= Len(g.rows) THEN PadTo(g.rows[i], w)
                                ELSE BlankRow(w)]
    IN [g EXCEPT !.rows = [old EXCEPT ![r][c] = v]]

---------------------------------------------------------------------------
(* pandas: to_numeric, read_excel, DataFrame, to_excel *)

RECURSIVE DecVal(_)
DecVal(s) ==
    IF s = <<>> THEN 0
    ELSE DecVal(SubSeq(s, 1, Len(s) - 1)) * 10 + (IndexOf(DigitChars, s[Len(s)]) - 1)

AllDigits(s) == \A i \in 1..Len(s) : Has(DigitChars, s[i])

\* pd.to_numeric(..., errors='coerce') on one sample text: the number in
\* tenths, or the missing-value marker
ToNumeric(s) ==
    LET dots == {i \in 1..Len(s) : s[i] = "."} IN
    IF dots = {} THEN
        IF Len(s) > 0 /\ AllDigits(s) THEN NumCell(DecVal(s) * 10) ELSE Blank
    ELSE IF Cardinality(dots) = 1 THEN
        LET d == CHOOSE i \in dots : TRUE
            ip == SubSeq(s, 1, d - 1)
            fp == SubSeq(s, d + 1, Len(s))
        IN IF Len(ip) + Len(fp) > 0 /\ AllDigits(ip) /\ AllDigits(fp) /\ Len(fp) <= 1
           THEN NumCell(DecVal(ip) * 10 + DecVal(fp))
           ELSE Blank
    ELSE Blank

\* a conversion that drops the texts that are not numbers
numeric_samples_dropna(texts) ==
    LET IsNumber(c) == c.t = "num"
    IN SelectSeq([i \in 1..Len(texts) |-> ToNumeric(texts[i])], IsNumber)

numeric_samples(texts) == [i \in 1..Len(texts) |-> ToNumeric(texts[i])]

\* the workbook is read with data_only=True: a formula the program wrote has
\* no cached value
CachedValue(c) == IF c.t \in {"avg", "tap"} THEN Blank ELSE c

RECURSIVE TrimRight(_)
TrimRight(r) ==
    IF r = <<>> \/ r[Len(r)] # Blank THEN r
    ELSE TrimRight(SubSeq(r, 1, Len(r) - 1))

\* the rows pandas takes from the sheet: trailing empty cells and trailing
\* empty rows trimmed, then every row padded to the widest
SheetData(g) ==
    LET conv == [i \in 1..Len(g.rows) |->
                    TrimRight([j \in 1..Len(g.rows[i]) |-> CachedValue(g.rows[i][j])])]
        full == {i \in 1..Len(conv) : conv[i] # <<>>}
        last == IF full = {} THEN 0 ELSE MaxOf(full)
        w == MaxOf({Len(conv[i]) : i \in 1..last} \cup {0})
    IN [i \in 1..last |-> PadTo(conv[i], w)]

UnnamedCell(i) == StrCell(UnnamedText \o <<DigitChars[i + 1]>>)

\* pd.read_excel(..., header=h): ok = FALSE is the ValueError pandas raises
\* when the sheet has no row h
ReadExcel(g, h) ==
    LET data == SheetData(g) IN
    IF data = <<>> THEN [ok |-> TRUE, cols |-> <<>>, rows |-> <<>>]
    ELSE IF h >= Len(data) THEN [ok |-> FALSE, cols |-> <<>>, rows |-> <<>>]
    ELSE [ok |-> TRUE,
          cols |-> [j \in 1..Len(data[h + 1]) |->
                       IF data[h + 1][j] = Blank THEN UnnamedCell(j - 1)
                       ELSE data[h + 1][j]],
          rows |-> SubSeq(data, h + 2, Len(data))]

\* a frame that carries its index along as a first column
NewFrameIndexed(name, vals) ==
    [ok |-> TRUE, cols |-> <<Blank, StrCell(name)>>,
     rows |-> [i \in 1..Len(vals) |-> <<NumCell(10 * (i - 1)), vals[i]>>]]

\* pd.DataFrame({test_header: numeric_samples})
NewFrame(name, vals) ==
    [ok |-> TRUE, cols |-> <<StrCell(name)>>,
     rows |-> [i \in 1..Len(vals) |-> <<vals[i]>>]]

\* pd.concat([existing_df, empty_rows]) when the samples outnumber the rows
ExtendRows(df, n) ==
    IF n > Len(df.rows)
    THEN [df EXCEPT !.rows = df.rows \o [i \in 1..(n - Len(df.rows)) |->
                                            BlankRow(Len(df.cols))]]
    ELSE df

\* the assignment as it would be if it never replaced: a second column of
\* the same label
SetColumnAppend(df, name, vals) ==
    [df EXCEPT !.cols = df.cols \o <<StrCell(name)>>,
               !.rows = [i \in 1..Len(df.rows) |-> df.rows[i] \o <<vals[i]>>]]

\* existing_df[test_header] = numeric_samples (the lengths agree): an existing
\* column of that label is replaced in place, a new one is appended
SetColumn(df, name, vals) ==
    IF \E j \in 1..Len(df.cols) : df.cols[j] = StrCell(name)
    THEN LET j == CHOOSE k \in 1..Len(df.cols) : df.cols[k] = StrCell(name)
         IN [df EXCEPT !.rows = [i \in 1..Len(df.rows) |->
                                    [df.rows[i] EXCEPT ![j] = vals[i]]]]
    ELSE [df EXCEPT !.cols = df.cols \o <<StrCell(name)>>,
                    !.rows = [i \in 1..Len(df.rows) |-> df.rows[i] \o <<vals[i]>>]]

\* updated_df.to_excel(writer, sheet_name=sheet_name, index=False)
ToExcel(df) == [rows |-> <<df.cols>> \o df.rows, merged |-> 0]

---------------------------------------------------------------------------
(* Inputs of the report operations *)

NameOff == <<"O", "f", "f">>
NameShortIdle == <<"S", "h", "o", "r", "t", " ", "I", "d", "l", "e">>
NameLongIdle == <<"l", "o", "n", "g", "i", "d", "l", "e">>
NameSleep == <<"S", "l", "e", "e", "p">>

Txt5 == <<"5">>
Txt20 == <<"2", "0">>
Txt3 == <<"3">>
Txt1 == <<"1">>
TxtBad == <<"b", "a", "d">>

Run(name, texts) == [name |-> name, samples |-> texts]

\* the runs the model writes: a test name (test_excel_header_x) with the
\* sample texts serialFunction returned for it
Runs ==
    { Run(NameOff, <<Txt5>>), Run(NameOff, <<TxtBad>>),
      Run(NameShortIdle, <<Txt20>>),
      Run(NameLongIdle, <<Txt3>>),
      Run(NameSleep, <<Txt1, TxtBad, Txt1>>) }

NoCall == [op |-> "none", name |-> <<>>, samples |-> <<>>]

\* what the next operation finds: the file, and the operation that ran last
Snapshot ==
    [fileExists |-> fileExists, sheets |-> sheets, op |-> call.op, ret |-> ret]

---------------------------------------------------------------------------
(* Report store: write_test_row_to_excel *)

\* updated_df: the frame write_test_row_to_excel builds before it writes
updated_df(name, texts) ==
    LET vals == numeric_samples(texts) IN
    IF ~fileExists \/ SheetName \notin DOMAIN sheets THEN NewFrame(name, vals)
    ELSE LET existing_df == ExtendRows(ReadExcel(sheets[SheetName], 0), Len(texts))
         IN IF Len(vals) # Len(existing_df.rows)
            THEN NewFrame(name, vals)    \* ValueError of the assignment, caught
            ELSE SetColumn(existing_df, name, vals)

\* a store that has emptied the file before it finds it locked
write_truncating(name, texts, locked) ==
    /\ call' = [op |-> "write", name |-> name, samples |-> texts]
    /\ prev' = Snapshot
    /\ missing' = <<>>
    /\ file_locked' = (locked /\ fileExists)
    /\ fileExists' = TRUE
    /\ IF locked /\ fileExists
       THEN ret' = "fail" /\ sheets' = <<>>
       ELSE ret' = "ok" /\ sheets' = (SheetName :> ToExcel(updated_df(name, texts)))

\* a store that puts the write off
write_put_off(name, texts, locked) == UNCHANGED storeVars

\* write_test_row_to_excel(test_header, samples); locked: the file is open in
\* another program (PermissionError)
write_test_row_to_excel(name, texts, locked) ==
    /\ call' = [op |-> "write", name |-> name, samples |-> texts]
    /\ prev' = Snapshot
    /\ missing' = <<>>
    /\ file_locked' = (locked /\ fileExists)
    /\ IF locked /\ fileExists
       THEN /\ ret' = "fail"
            /\ UNCHANGED <<fileExists, sheets>>
       ELSE /\ ret' = "ok"
            /\ fileExists' = TRUE
            /\ sheets' = (SheetName :> ToExcel(updated_df(name, texts)))

---------------------------------------------------------------------------
(* Report calculator: PowerCalc *)

\* PowerCalc._load_workbook on the file (exists, wb): self.ws, self.df,
\* self.last_data_row
load_workbook(exists, wb) ==
    IF ~exists \/ SheetName \notin DOMAIN wb
    THEN [ok |-> FALSE, ws |-> EmptyGrid, df |-> ReadExcel(EmptyGrid, 0),
          last_data_row |-> 0]
    ELSE LET ws == wb[SheetName]
             has_averages_at_top == CellAt(ws, 1, 1) = StrCell(AveragesText)
             df == ReadExcel(ws, IF has_averages_at_top THEN 2 ELSE 0)
         IN [ok |-> df.ok /\ df.cols # <<>> /\ df.rows # <<>>,
             ws |-> ws, df |-> df, last_data_row |-> Len(df.rows) + 1]

RECURSIVE WriteAveragesUnshifted(_, _, _)
\* the loop as it would be with the range the data had before the insertion
WriteAveragesUnshifted(ws, col, last_data_row) ==
    IF col = 0 THEN ws
    ELSE SetCell(WriteAveragesUnshifted(ws, col - 1, last_data_row), 2, col,
                 AvgCell(col, 2, last_data_row))

RECURSIVE WriteAverages(_, _, _)
\* the loop writing '=AVERAGE(c4:c{last_data_row + 2})' into row 2
WriteAverages(ws, col, last_data_row) ==
    IF col = 0 THEN ws
    ELSE SetCell(WriteAverages(ws, col - 1, last_data_row), 2, col,
                 AvgCell(col, 4, last_data_row + 2))

\* the sheet add_averages saves: two rows inserted, the spanning title, the
\* formulas
averaged_sheet(ws, df, last_data_row) ==
    LET w == IF ws.rows = <<>> THEN 0 ELSE MaxColumn(ws)
        inserted == [ws EXCEPT !.rows = <<BlankRow(w), BlankRow(w)>> \o ws.rows]
        num_cols == Len(df.cols)
        titled == [SetCell(inserted, 1, 1, StrCell(AveragesText))
                      EXCEPT !.merged = IF num_cols > 1 THEN num_cols ELSE 0]
    IN WriteAverages(titled, num_cols, last_data_row)

\* the check as it would be if it never found the averages
averages_exist_never(ws) == FALSE

\* add_averages: "Check if averages already exist"
averages_exist(ws) == CellAt(ws, 1, 1) = StrCell(AveragesText)

\* PowerCalc.add_averages()
add_averages ==
    LET wb == load_workbook(fileExists, sheets) IN
    /\ call' = [op |-> "averages", name |-> <<>>, samples |-> <<>>]
    /\ prev' = Snapshot
    /\ file_locked' = FALSE
    /\ missing' = <<>>
    /\ UNCHANGED fileExists
    /\ IF ~wb.ok
       THEN ret' = "fail" /\ UNCHANGED sheets
       ELSE IF averages_exist(wb.ws)
       THEN ret' = "ok" /\ UNCHANGED sheets
       ELSE /\ ret' = "ok"
            /\ sheets' = [sheets EXCEPT ![SheetName] =
                            averaged_sheet(wb.ws, wb.df, wb.last_data_row)]

\* column_positions[name]: the last column whose normalised header is name
\* (0: none)
column_position(df, name) ==
    LET hits == {j \in 1..Len(df.cols) :
                    df.cols[j].t = "str" /\ NormalizeName(df.cols[j].s) = name}
    IN IF hits = {} THEN 0 ELSE MaxOf(hits)

missing_columns(df) ==
    SelectSeq(columns_needed, LAMBDA name : column_position(df, name) = 0)

\* the column as it would be if row 1 were not scanned for the header
tap_col_idx_append(ws, df) == Len(df.cols) + 1

\* the column of the 'Total Annual Power' header: the first one of row 1
\* holding it, else the one after the last data column
tap_col_idx(ws, df) ==
    LET found == {c \in 1..MaxColumn(ws) : CellAt(ws, 1, c) = StrCell(TapText)}
    IN IF found # {} THEN CHOOSE c \in found : \A d \in found : c <= d
       ELSE Len(df.cols) + 1

\* the formula totalAnnualPower writes into row 2
tap_formula(df) ==
    TapCell(column_position(df, OffText), column_position(df, SleepText),
            column_position(df, LongIdleText), column_position(df, ShortIdleText))

\* the check as it would be if it were skipped
has_averages_always(ws) == TRUE

\* totalAnnualPower: "Check if averages are at the top"
has_averages_at_top(ws) == CellAt(ws, 1, 1) = StrCell(AveragesText)

\* PowerCalc.totalAnnualPower()
totalAnnualPower ==
    LET wb == load_workbook(fileExists, sheets)
        col == tap_col_idx(wb.ws, wb.df)
    IN
    /\ call' = [op |-> "tap", name |-> <<>>, samples |-> <<>>]
    /\ prev' = Snapshot
    /\ file_locked' = FALSE
    /\ UNCHANGED fileExists
    /\ IF ~wb.ok
       THEN ret' = "fail" /\ missing' = <<>> /\ UNCHANGED sheets
       ELSE IF missing_columns(wb.df) # <<>>
       THEN ret' = "fail" /\ missing' = missing_columns(wb.df) /\ UNCHANGED sheets
       ELSE IF ~has_averages_at_top(wb.ws)
       THEN ret' = "fail" /\ missing' = <<>> /\ UNCHANGED sheets
       ELSE IF 1 < col /\ col <= wb.ws.merged
       THEN ret' = "fail" /\ missing' = <<>> /\ UNCHANGED sheets
       ELSE /\ ret' = "ok"
            /\ missing' = <<>>
            /\ sheets' = [sheets EXCEPT ![SheetName] =
                            SetCell(SetCell(wb.ws, 1, col, StrCell(TapText)),
                                    2, col, tap_formula(wb.df))]

---------------------------------------------------------------------------
(* Specification of the report store and calculator *)

\* no report file, and no operation yet
EmptyStore ==
    /\ fileExists = FALSE
    /\ sheets = <<>>
    /\ call = NoCall
    /\ ret = "none"
    /\ missing = <<>>
    /\ prev = [fileExists |-> FALSE, sheets |-> <<>>, op |-> "none", ret |-> "none"]
    /\ file_locked = FALSE

\* the menu is up: no sequence runs
IdleScheduler ==
    /\ config = <<>>
    /\ pc = "menu"
    /\ default_excel_file = "default"
    /\ test_numbers = <<>>
    /\ idx = 0
    /\ now = 0
    /\ global_start_time = 0
    /\ elapsed_time = 0
    /\ dev = "none"
    /\ end_time = 0
    /\ samples = <<>>
    /\ sample_count = 0
    /\ recent_samples = <<>>
    /\ queries = <<>>
    /\ exit_path = "none"
    /\ close_calls = 0
    /\ open_channels = 0
    /\ roundtrip = 0
    /\ choice = "none"
    /\ started = <<>>
    /\ processed = <<>>

\* no parse_time_value call
NoParse ==
    /\ time_value = [k |-> "none", m |-> 0, s |-> <<>>]
    /\ parse_result = <<>>

InitStore == EmptyStore /\ IdleScheduler /\ NoParse

WriteTest ==
    /\ \E run \in Runs, locked \in BOOLEAN :
          write_test_row_to_excel(run.name, run.samples, locked)
    /\ UNCHANGED schedVars

AddAverages == add_averages /\ UNCHANGED schedVars

TotalAnnualPower == totalAnnualPower /\ UNCHANGED schedVars

NextStore == WriteTest \/ AddAverages \/ TotalAnnualPower

SpecStore == InitStore /\ [][NextStore]_vars

---------------------------------------------------------------------------
(* The same operations on a file that is there already *)

\* a sheet of the workbook other than the report's
OtherSheetName == "Summary"
OtherSheet == ToExcel(NewFrame(NameShortIdle, numeric_samples(<<Txt20, Txt3>>)))

\* the files the operations may find: a file that is no workbook (<<>>), a
\* workbook without the report's sheet, a workbook with it
Books ==
    { <<>>,
      (OtherSheetName :> OtherSheet),
      (OtherSheetName :> OtherSheet)
          @@ (SheetName :> ToExcel(NewFrame(NameOff, numeric_samples(<<Txt5>>)))) }

InitBook ==
    /\ fileExists \in BOOLEAN
    /\ sheets \in Books
    /\ ~fileExists => sheets = <<>>
    /\ call = NoCall
    /\ ret = "none"
    /\ missing = <<>>
    /\ prev = [fileExists |-> FALSE, sheets |-> <<>>, op |-> "none", ret |-> "none"]
    /\ file_locked = FALSE
    /\ IdleScheduler /\ NoParse

NextBook == WriteTest \/ AddAverages \/ TotalAnnualPower

SpecBook == InitBook /\ [][NextBook]_vars

---------------------------------------------------------------------------
(* Scheduler: configuration values *)

SecondsPerMinute == 60

\* a raw configuration value: absent, a number of minutes, or a text
NoValue == [k |-> "none", m |-> 0, s |-> <<>>]
Minutes(m) == [k |-> "num", m |-> m, s |-> <<>>]
Text(s) == [k |-> "str", m |-> 0, s |-> s]

\* the keys test_excel_header_x, test_start_time_x, test_duration_x and
\* after_test_pause_x of one test number x
Entry(num, header, start, duration, pause) ==
    [num |-> num, header |-> header, start |-> start, duration |-> duration,
     pause |-> pause]

RECURSIVE Split(_, _)
\* str.split(sep)
Split(s, sep) ==
    IF ~Has(s, sep) THEN <<s>>
    ELSE LET k == CHOOSE i \in 1..Len(s) :
                     s[i] = sep /\ \A j \in 1..(i - 1) : s[j] # sep
         IN <<SubSeq(s, 1, k - 1)>> \o Split(SubSeq(s, k + 1, Len(s)), sep)

\* int(text) succeeds
IsInt(s) == Len(s) > 0 /\ AllDigits(s)

\* a parser that also takes a text of digits for a number of minutes
parse_digits_too(v) ==
    IF v.k = "num" THEN v.m * SecondsPerMinute
    ELSE IF v.k = "str" /\ IsInt(v.s) THEN DecVal(v.s) * SecondsPerMinute
    ELSE IF v.k = "str" /\ Has(v.s, ":") /\ Len(Split(v.s, ":")) = 2
    THEN LET parts == Split(v.s, ":") IN
         IF IsInt(parts[1]) /\ IsInt(parts[2])
         THEN DecVal(parts[1]) * SecondsPerMinute + DecVal(parts[2])
         ELSE 0
    ELSE 0

\* parse_time_value(time_value), in seconds (the minutes it returns times 60)
parse_time_value(v) ==
    IF v.k = "num" THEN v.m * SecondsPerMinute
    ELSE IF v.k = "str" /\ Has(v.s, ":") /\ Len(Split(v.s, ":")) = 2
    THEN LET parts == Split(v.s, ":") IN
         IF IsInt(parts[1]) /\ IsInt(parts[2])
         THEN DecVal(parts[1]) * SecondsPerMinute + DecVal(parts[2])
         ELSE 0
    ELSE 0

\* a scheduler that parses an absent value as well (to 0)
ParsedAlways(raw) == <<parse_time_value(raw)>>

\* parse_time_value(raw) if raw is not None else None: <<>> is None
ParsedOrNone(raw) == IF raw.k = "none" THEN <<>> ELSE <<parse_time_value(raw)>>

\* str < str: the order list.sort() puts the test numbers in
StrLess(a, b) ==
    \E k \in 1..(Len(a) + 1) :
        /\ k <= Len(b)
        /\ \A j \in 1..(k - 1) : a[j] = b[j]
        /\ k = Len(a) + 1 \/ IndexOf(DigitChars, a[k]) < IndexOf(DigitChars, b[k])

RECURSIVE SortStrings(_)
\* test_numbers.sort()
SortStrings(S) ==
    IF S = {} THEN <<>>
    ELSE LET least == CHOOSE a \in S : \A b \in S \ {a} : StrLess(a, b)
         IN <<least>> \o SortStrings(S \ {least})

\* the test numbers found under the keys test_excel_header_x
HeaderKeys(cfg) == {cfg[k].num : k \in 1..Len(cfg)}

\* test_settings.get(f'..._{test_num}')
Setting(cfg, num) == cfg[CHOOSE k \in 1..Len(cfg) : cfg[k].num = num]

\* a scheduler that takes a duration of 0 for a duration
runnable_for_no_time(test_header, start_time, duration) ==
    /\ test_header # <<>>
    /\ start_time # <<>>
    /\ duration # <<>>

\* if test_header and start_time is not None and duration
runnable(test_header, start_time, duration) ==
    /\ test_header # <<>>
    /\ start_time # <<>>
    /\ duration # <<>> /\ duration[1] # 0

\* a scheduler that does not wait
wait_over_always(elapsed, start_time) == TRUE

\* the wait loop is over: not (elapsed_time < start_time)
wait_over(elapsed, start_time) == ~(elapsed < start_time[1])

---------------------------------------------------------------------------
(* Scheduler: the configurations of the model *)

Num1 == <<"1">>
Num2 == <<"2">>
Num3 == <<"3">>
Num10 == <<"1", "0">>

T0m02 == Text(<<"0", ":", "0", "2">>)
T0m03 == Text(<<"0", ":", "0", "3">>)
T0m05 == Text(<<"0", ":", "0", "5">>)
TBad == Text(<<"s", "o", "o", "n">>)

Configs ==
    { \* offsets 0 and 2 minutes
      << Entry(Num1, NameOff, Minutes(0), T0m03, FALSE),
         Entry(Num2, NameSleep, Minutes(2), T0m02, FALSE) >>,
      \* test numbers of different lengths
      << Entry(Num1, NameOff, Minutes(0), T0m02, FALSE),
         Entry(Num2, NameShortIdle, T0m03, T0m02, FALSE),
         Entry(Num10, NameSleep, T0m05, T0m02, FALSE) >>,
      \* no start offset; a later offset that is earlier; a pause
      << Entry(Num1, NameOff, T0m03, T0m02, TRUE),
         Entry(Num2, NameShortIdle, NoValue, T0m02, FALSE),
         Entry(Num3, NameSleep, T0m02, T0m02, FALSE) >>,
      \* no header, no duration, a duration and an offset that do not parse
      << Entry(Num1, <<>>, Minutes(0), T0m02, FALSE),
         Entry(Num2, NameOff, TBad, T0m02, TRUE),
         Entry(Num3, NameSleep, Minutes(0), TBad, FALSE),
         Entry(Num10, NameLongIdle, T0m05, NoValue, FALSE) >> }

\* time.sleep(1) returns after one second or more
SleepTimes == {1, 2, 60}
\* the round trip of one query
RoundTrips == {1, 2}
\* the characters str.strip() removes
Whitespace == {" ", "\t", "\n", "\r"}

RECURSIVE Strip(_)
\* str.strip()
Strip(s) ==
    IF s = <<>> THEN s
    ELSE IF s[1] \in Whitespace THEN Strip(Tail(s))
    ELSE IF s[Len(s)] \in Whitespace THEN Strip(SubSeq(s, 1, Len(s) - 1))
    ELSE s

\* a query that returns the response as it was read
query_untrimmed(response) == response

\* SerialDevice.query, the text it returns: response.decode().strip(), or
\* None (<<>>) when nothing was read or the port raised
query(response) == IF response = <<>> THEN <<>> ELSE Strip(response)

\* what ser.read(64) returns for one query: nothing (or an exception), a
\* reading with its line end, white space only
RawResponses == {<<>>, <<"1", "\r", "\n">>, <<" ", "\n">>}
\* the response of one query: a text, or <<>> for no data or a failed query
Responses == {query(response) : response \in RawResponses}
\* the time the user takes to press Enter at the pause prompt
PauseTimes == {0, 4}
\* the report a sequence may find on disk
OldReport == (SheetName :> ToExcel(NewFrame(NameOff, numeric_samples(<<Txt20>>))))

---------------------------------------------------------------------------
(* Scheduler: run_power_tests, with serialFunction *)

test_num == test_numbers[idx]
test_header == Setting(config, test_num).header
start_time == ParsedOrNone(Setting(config, test_num).start)
duration == ParsedOrNone(Setting(config, test_num).duration)
pause_after == Setting(config, test_num).pause

\* the preamble as it would be if it went on after a failed deletion
BeginWhateverRemoved ==
    /\ pc = "begin"
    /\ \E answer \in {"y", "n", "other"}, removed \in BOOLEAN :
          IF fileExists /\ answer = "other"
          THEN UNCHANGED <<fileExists, sheets, default_excel_file, pc,
                           test_numbers, idx, timerVars>>
          ELSE /\ IF fileExists /\ (removed \/ answer = "n")
                  THEN /\ fileExists' = FALSE
                       /\ sheets' = <<>>
                       /\ default_excel_file' =
                             IF answer = "n" THEN "timestamped" ELSE "default"
                  ELSE UNCHANGED <<fileExists, sheets, default_excel_file>>
               /\ test_numbers' = SortStrings(HeaderKeys(config))
               /\ idx' = 1
               /\ global_start_time' = now
               /\ elapsed_time' = 0
               /\ now' = now
               /\ pc' = "loop"
    /\ UNCHANGED <<call, ret, missing, prev, file_locked, inputVars, samplerVars, started, processed>>

\* the prompt for an existing report file, then the test numbers and the
\* global timer
Begin ==
    /\ pc = "begin"
    /\ \E answer \in {"y", "n", "other"}, removed \in BOOLEAN :
          IF fileExists /\ answer = "other"
          THEN UNCHANGED <<fileExists, sheets, default_excel_file, pc,
                           test_numbers, idx, timerVars>>
          ELSE IF fileExists /\ answer = "y" /\ ~removed
          THEN /\ pc' = "returned"
               /\ UNCHANGED <<fileExists, sheets, default_excel_file,
                              test_numbers, idx, timerVars>>
          ELSE /\ IF fileExists
                  THEN /\ fileExists' = FALSE
                       /\ sheets' = <<>>
                       /\ default_excel_file' =
                             IF answer = "n" THEN "timestamped" ELSE "default"
                  ELSE UNCHANGED <<fileExists, sheets, default_excel_file>>
               /\ test_numbers' = SortStrings(HeaderKeys(config))
               /\ idx' = 1
               /\ global_start_time' = now
               /\ elapsed_time' = 0
               /\ now' = now
               /\ pc' = "loop"
    /\ UNCHANGED <<call, ret, missing, prev, file_locked, inputVars, samplerVars, started, processed>>

\* for test_num in test_numbers: the loop is exhausted
Finish ==
    /\ pc = "loop" /\ idx > Len(test_numbers)
    /\ pc' = "done"
    /\ UNCHANGED <<storeVars, inputVars, default_excel_file, test_numbers, idx,
                   timerVars, samplerVars, started, processed>>

\* a test that is not runnable: "Warning: Missing configuration"
Skip ==
    /\ pc = "loop" /\ idx <= Len(test_numbers)
    /\ ~runnable(test_header, start_time, duration)
    /\ processed' = Append(processed, test_num)
    /\ idx' = idx + 1
    /\ UNCHANGED <<storeVars, inputVars, pc, default_excel_file, test_numbers,
                   timerVars, samplerVars, started>>

\* a runnable test: on to the wait for its start time
Take ==
    /\ pc = "loop" /\ idx <= Len(test_numbers)
    /\ runnable(test_header, start_time, duration)
    /\ processed' = Append(processed, test_num)
    /\ pc' = "wait"
    /\ UNCHANGED <<storeVars, inputVars, default_excel_file, test_numbers, idx,
                   timerVars, samplerVars, started>>

\* a loop that sleeps in every iteration
sleeps_always(remaining) == TRUE

\* if remaining > 0: time.sleep(1)
sleeps(remaining) == remaining > 0

\* one iteration of: while elapsed_time < start_time
Wait ==
    /\ pc = "wait" /\ ~wait_over(elapsed_time, start_time)
    /\ elapsed_time' = now - global_start_time
    /\ IF sleeps(start_time[1] - elapsed_time')
       THEN \E d \in SleepTimes : now' = now + d
       ELSE now' = now
    /\ UNCHANGED <<storeVars, inputVars, pc, default_excel_file, test_numbers, idx,
                   global_start_time, samplerVars, started, processed>>

\* a program that ends when the user interrupts it
exits_on_interrupt(at) == "exit"

\* the main loop catches KeyboardInterrupt and shows the menu again
after_interrupt(at) == "menu"

\* KeyboardInterrupt in time.sleep(1) of the wait loop: run_power_tests does
\* not catch it
WaitInterrupt ==
    /\ pc = "wait" /\ ~wait_over(elapsed_time, start_time)
    /\ pc' = after_interrupt(pc)
    /\ UNCHANGED <<storeVars, inputVars, default_excel_file, test_numbers, idx,
                   timerVars, samplerVars, started, processed>>

\* the wait is over: serialFunction(minutes=duration) is called and opens the
\* device (opened), or fails to and returns []
start_sampler(opened) ==
    /\ started' = Append(started, [num |-> test_num, at |-> now - global_start_time])
    /\ samples' = <<>>
    /\ sample_count' = 0
    /\ recent_samples' = <<>>
    /\ queries' = <<>>
    /\ exit_path' = "none"
    /\ close_calls' = 0
    /\ IF opened
       THEN /\ dev' = "open" /\ end_time' = now + duration[1] /\ pc' = "poll"
            /\ open_channels' = open_channels + 1
       ELSE /\ dev' = "none" /\ end_time' = end_time /\ pc' = "write"
            /\ open_channels' = open_channels
    /\ UNCHANGED <<storeVars, inputVars, default_excel_file, test_numbers, idx,
                   timerVars, processed>>

StartSampler ==
    /\ pc = "wait" /\ wait_over(elapsed_time, start_time)
    /\ \E opened \in BOOLEAN : start_sampler(opened)

MaxRecent == 15

\* a loop that stores every response twice
polled_twice(seq, retAsciiData) == seq \o <<retAsciiData, retAsciiData>>

\* a loop that stores whatever a query returned
polled_always(seq, retAsciiData) == Append(seq, retAsciiData)

\* if retAsciiData: samples.append(retAsciiData)
polled(seq, retAsciiData) ==
    IF retAsciiData # <<>> THEN Append(seq, retAsciiData) ELSE seq

\* a display that keeps every sample
shown_all(recent, retAsciiData) == Append(recent, retAsciiData)

\* recent_samples.append(retAsciiData); if len(recent_samples) > 15:
\* recent_samples.pop(0)
shown(recent, retAsciiData) ==
    LET r == Append(recent, retAsciiData)
    IN IF Len(r) > MaxRecent THEN Tail(r) ELSE r

\* the body of the loop: a query that takes d and returns retAsciiData
poll_once(d, retAsciiData) ==
    /\ now' = now + d
    /\ queries' = Append(queries, retAsciiData)
    /\ samples' = polled(samples, retAsciiData)
    /\ IF retAsciiData # <<>>
       THEN /\ sample_count' = sample_count + 1
            /\ recent_samples' = shown(recent_samples, retAsciiData)
       ELSE UNCHANGED <<sample_count, recent_samples>>
    /\ UNCHANGED <<storeVars, inputVars, pc, default_excel_file, test_numbers, idx,
                   global_start_time, elapsed_time, dev, end_time, exit_path,
                   close_calls, open_channels, started, processed>>

\* one iteration of: while time.time() < end_time
Poll ==
    /\ pc = "poll" /\ now < end_time
    /\ \E d \in RoundTrips, response \in RawResponses :
          poll_once(d, query(response))

\* a Sampler that returns samples only from a run that was not cut short
returned_if_complete(seq, cause) == IF cause = "elapsed" THEN seq ELSE <<>>

\* return samples
returned_samples(seq, cause) == seq

\* a Sampler that closes the device in the loop's handler and in finally
closes_twice(d, cause) == IF d = "open" THEN 2 ELSE 0

\* a Sampler that leaves the device to the garbage collector
closes_never(d, cause) == 0

\* a Sampler that closes the device only at the end of the try block
closes_after_loop(d, cause) == IF d = "open" /\ cause = "elapsed" THEN 1 ELSE 0

\* finally: if dev: dev.close() -- the number of close() calls
finally_closes(d, cause) == IF d = "open" THEN 1 ELSE 0

\* the device after the finally block
finally_dev(d, cause) == IF finally_closes(d, cause) > 0 THEN "closed" ELSE d

\* a scheduler that gives the sequence up when a run is interrupted
end_sampler_and_sequence(cause) ==
    /\ exit_path' = cause
    /\ dev' = finally_dev(dev, cause)
    /\ close_calls' = close_calls + finally_closes(dev, cause)
    /\ open_channels' = open_channels - finally_closes(dev, cause)
    /\ samples' = returned_samples(samples, cause)
    /\ pc' = IF cause = "interrupt" THEN "menu" ELSE "write"
    /\ UNCHANGED <<storeVars, inputVars, default_excel_file, test_numbers, idx,
                   timerVars, end_time, sample_count, recent_samples, queries,
                   started, processed>>

\* the loop ends (the duration has elapsed, or KeyboardInterrupt or another
\* exception is caught); finally: dev.close(); return samples
end_sampler(cause) ==
    /\ exit_path' = cause
    /\ dev' = finally_dev(dev, cause)
    /\ close_calls' = close_calls + finally_closes(dev, cause)
    /\ open_channels' = open_channels - finally_closes(dev, cause)
    /\ samples' = returned_samples(samples, cause)
    /\ pc' = "write"
    /\ UNCHANGED <<storeVars, inputVars, default_excel_file, test_numbers, idx,
                   timerVars, end_time, sample_count, recent_samples, queries,
                   started, processed>>

EndSampler ==
    /\ pc = "poll"
    /\ \E cause \in {"elapsed", "interrupt", "exception"} :
          /\ cause = "elapsed" => ~(now < end_time)
          /\ end_sampler(cause)

\* a scheduler that writes after every run that had the device
has_samples_or_device(seq) == seq # <<>> \/ dev = "closed"

\* a scheduler that writes whatever a run returned
has_samples_or_not(seq) == TRUE

\* if samples
has_samples(seq) == seq # <<>>

\* if samples: write_test_row_to_excel(...); elapsed_time is updated; on to
\* the pause or to the next test
Commit ==
    /\ pc = "write"
    /\ IF has_samples(samples)
       THEN \E locked \in BOOLEAN :
               write_test_row_to_excel(test_header, samples, locked)
       ELSE UNCHANGED storeVars
    /\ elapsed_time' = now - global_start_time
    /\ IF pause_after
       THEN pc' = "pause" /\ idx' = idx
       ELSE pc' = "loop" /\ idx' = idx + 1
    /\ UNCHANGED <<inputVars, default_excel_file, test_numbers, now,
                   global_start_time, samplerVars, started, processed>>

\* a scheduler that starts the timer afresh after a pause
resumed_start_afresh(t, elapsed) == t

\* a scheduler that leaves the origin where it was
resumed_start_kept(t, elapsed) == global_start_time

\* global_start_time = time.time() - (elapsed_time * 60)
resumed_start(t, elapsed) == t - elapsed

\* input("Press Enter to continue to the next test...") returns; the global
\* start time is moved by the length of the pause
Resume ==
    /\ pc = "pause"
    /\ \E d \in PauseTimes :
          /\ now' = now + d
          /\ global_start_time' = resumed_start(now', elapsed_time)
    /\ pc' = "loop"
    /\ idx' = idx + 1
    /\ UNCHANGED <<storeVars, inputVars, default_excel_file, test_numbers,
                   elapsed_time, samplerVars, started, processed>>

InitSched ==
    /\ \E exists \in BOOLEAN :
          /\ fileExists = exists
          /\ sheets = IF exists THEN OldReport ELSE <<>>
    /\ call = NoCall
    /\ ret = "none"
    /\ missing = <<>>
    /\ prev = [fileExists |-> FALSE, sheets |-> <<>>, op |-> "none", ret |-> "none"]
    /\ file_locked = FALSE
    /\ config \in Configs
    /\ pc = "begin"
    /\ default_excel_file = "default"
    /\ test_numbers = <<>>
    /\ idx = 0
    /\ now = 0
    /\ global_start_time = 0
    /\ elapsed_time = 0
    /\ dev = "none"
    /\ end_time = 0
    /\ samples = <<>>
    /\ sample_count = 0
    /\ recent_samples = <<>>
    /\ queries = <<>>
    /\ exit_path = "none"
    /\ close_calls = 0
    /\ open_channels = 0
    /\ roundtrip = 0
    /\ choice = "1"
    /\ started = <<>>
    /\ processed = <<>>
    /\ NoParse

NextSched ==
    \/ Begin \/ Finish \/ Skip \/ Take \/ Wait \/ WaitInterrupt \/ StartSampler \/ Poll
    \/ EndSampler \/ Commit \/ Resume

SpecSched == InitSched /\ [][NextSched]_vars

---------------------------------------------------------------------------
(* One Sampler run on a channel that answers every query, each in the same
   time *)

MaxSeconds == 18
MaxRoundTrip == 3

\* a duration of n seconds as the configuration gives it: "0:nn"
SecondsText(n) ==
    Text(<<"0", ":", DigitChars[(n \div 10) + 1], DigitChars[(n % 10) + 1]>>)

\* the k-th response of the channel: a reading that differs from query to
\* query
Reading(k) == <<DigitChars[(k \div 10) + 1], DigitChars[(k % 10) + 1]>>

\* serialFunction is about to be called for a test of some duration
InitSampler ==
    /\ EmptyStore /\ NoParse
    /\ \E seconds \in 0..MaxSeconds :
          config = <<Entry(Num1, NameShortIdle, Minutes(0), SecondsText(seconds), FALSE)>>
    /\ roundtrip \in 1..MaxRoundTrip
    /\ choice = "1"
    /\ pc = "wait"
    /\ default_excel_file = "default"
    /\ test_numbers = <<Num1>>
    /\ idx = 1
    /\ processed = <<Num1>>
    /\ now = 0
    /\ global_start_time = 0
    /\ elapsed_time = 0
    /\ dev = "none"
    /\ end_time = 0
    /\ samples = <<>>
    /\ sample_count = 0
    /\ recent_samples = <<>>
    /\ queries = <<>>
    /\ exit_path = "none"
    /\ close_calls = 0
    /\ open_channels = 0
    /\ started = <<>>

\* the device opens
SteadyStart ==
    /\ pc = "wait" /\ wait_over(elapsed_time, start_time)
    /\ start_sampler(TRUE)

\* one iteration of the loop
SteadyPoll ==
    /\ pc = "poll" /\ now < end_time
    /\ poll_once(roundtrip, Reading(Len(queries) + 1))

\* the duration has elapsed
SteadyEnd ==
    /\ pc = "poll" /\ ~(now < end_time)
    /\ end_sampler("elapsed")

NextSampler == SteadyStart \/ SteadyPoll \/ SteadyEnd

\* the loop runs on by itself
SpecSampler == InitSampler /\ [][NextSampler]_vars /\ WF_vars(NextSampler)

---------------------------------------------------------------------------
(* write_test_row_to_excel on its own, into a new report *)

MaxSamples == 4

Txt101 == <<"1", "0", ".", "1">>
Txt103 == <<"1", "0", ".", "3">>
Txt105 == <<"1", "0", ".", "5">>
NameTestA == <<"T", "e", "s", "t", "A">>

\* what the device may answer: numbers, and a text that is not a number
SampleTexts == {Txt101, Txt103, Txt105, TxtBad}
SampleLists == UNION {[1..n -> SampleTexts] : n \in 1..MaxSamples}

WriteNew ==
    /\ ~fileExists
    /\ \E texts \in SampleLists : write_test_row_to_excel(NameTestA, texts, FALSE)
    /\ UNCHANGED schedVars

InitWrite == EmptyStore /\ IdleScheduler /\ NoParse

NextWrite == WriteNew

SpecWrite == InitWrite /\ [][NextWrite]_vars

---------------------------------------------------------------------------
(* parse_time_value on its own *)

MaxTextLen == 5
MaxMinutes == 3

\* the characters of the texts: digits, the separator, and another character
TimeChars == {"0", "1", "3", ":", "x"}
TimeTexts == UNION {[1..n -> TimeChars] : n \in 0..MaxTextLen}

\* None, a number of minutes, or a text
TimeValues ==
    {NoValue} \cup {Minutes(m) : m \in 0..MaxMinutes} \cup {Text(s) : s \in TimeTexts}

ParseTimeValue ==
    /\ parse_result = <<>>
    /\ parse_result' = <<parse_time_value(time_value)>>
    /\ UNCHANGED <<storeVars, config, time_value, roundtrip, choice, pc, default_excel_file,
                   test_numbers, idx, timerVars, samplerVars, started, processed>>

InitParse ==
    /\ EmptyStore /\ IdleScheduler
    /\ time_value \in TimeValues
    /\ parse_result = <<>>

NextParse == ParseTimeValue

SpecParse == InitParse /\ [][NextParse]_vars

---------------------------------------------------------------------------
(* The main menu loop, with the actions it calls *)

MenuConfig ==
    << Entry(Num1, NameOff, Minutes(0), T0m02, TRUE),
       Entry(Num2, NameSleep, T0m03, T0m02, FALSE),
       Entry(Num3, NameLongIdle, Minutes(0), NoValue, FALSE) >>

\* the program that leaves the menu loop when it is interrupted
quits_on_interrupt(at) == "exited"

\* where a KeyboardInterrupt raised at a prompt or in a calculation lands:
\* none of them is caught before the menu loop
interrupt_lands(at) == after_interrupt(at)

\* the frame of a step of the calculator or of a prompt
actionFrame ==
    <<inputVars, default_excel_file, test_numbers, idx, timerVars, samplerVars,
      started, processed>>

\* choice = menuHelper.display_menu(menu_options), and the branch taken; the
\* locals of the function called are fresh, and the clock is read from 0
Choose ==
    /\ pc = "menu"
    /\ \E c \in {"1", "2", "3", "x"} :
          /\ choice' = c
          /\ pc' = CASE c = "1" -> "begin"
                     [] c = "2" -> "calc"
                     [] c = "3" -> "rerun"
                     [] c = "x" -> "exited"
    /\ call' = NoCall /\ ret' = "none" /\ missing' = <<>> /\ file_locked' = FALSE
    /\ prev' = [fileExists |-> FALSE, sheets |-> <<>>, op |-> "none", ret |-> "none"]
    /\ default_excel_file' = "default"
    /\ test_numbers' = <<>> /\ idx' = 0
    /\ now' = 0 /\ global_start_time' = 0 /\ elapsed_time' = 0
    /\ dev' = "none" /\ end_time' = 0
    /\ samples' = <<>> /\ sample_count' = 0 /\ recent_samples' = <<>>
    /\ queries' = <<>> /\ exit_path' = "none" /\ close_calls' = 0
    /\ started' = <<>> /\ processed' = <<>>
    /\ UNCHANGED <<fileExists, sheets, config, time_value, parse_result,
                   roundtrip, open_channels>>

\* run_power_tests or rerun_specific_test returns to the loop
Return ==
    /\ pc \in {"done", "returned"}
    /\ pc' = "menu"
    /\ UNCHANGED <<storeVars, actionFrame>>

\* choice '2': the file is looked for, calc_choice is read, and add_averages
\* or totalAnnualPower is called
Calc ==
    /\ pc = "calc"
    /\ \E calc_choice \in {"1", "2", "3", "other"} :
          IF ~fileExists \/ calc_choice = "other"
          THEN pc' = "menu" /\ UNCHANGED storeVars
          ELSE IF calc_choice = "2"
          THEN totalAnnualPower /\ pc' = "menu"
          ELSE /\ add_averages
               /\ pc' = IF calc_choice = "3" /\ ret' = "ok" THEN "calc2" ELSE "menu"
    /\ UNCHANGED actionFrame

\* calc_choice '3', after add_averages has succeeded: calc2.totalAnnualPower()
Calc2 ==
    /\ pc = "calc2"
    /\ totalAnnualPower
    /\ pc' = "menu"
    /\ UNCHANGED actionFrame

\* the tests rerun_specific_test offers: those with a header
rerunnable(cfg) == {n \in HeaderKeys(cfg) : Setting(cfg, n).header # <<>>}

\* rerun_specific_test up to the duration check; test_numbers holds
\* selected_num alone from here on
RerunSelect ==
    /\ pc = "rerun"
    /\ \E selected \in rerunnable(config) \cup {<<>>} :
          IF selected = <<>>    \* "Cancel", or no test to offer
          THEN pc' = "done" /\ UNCHANGED <<test_numbers, idx>>
          ELSE /\ test_numbers' = <<selected>>
               /\ idx' = 1
               /\ LET raw == Setting(config, selected).duration
                      parsed == ParsedOrNone(raw)
                  IN pc' = IF parsed = <<>> \/ parsed[1] = 0 THEN "done"
                           ELSE "confirm"
    /\ UNCHANGED <<storeVars, inputVars, default_excel_file, timerVars,
                   samplerVars, started, processed>>

\* the confirmation for a file that exists, then serialFunction is called
RerunStart ==
    /\ pc = "confirm"
    /\ \E confirm \in {"y", "n"}, opened \in BOOLEAN :
          IF fileExists /\ confirm # "y"
          THEN /\ pc' = "done"
               /\ UNCHANGED <<storeVars, inputVars, default_excel_file,
                              test_numbers, idx, timerVars, samplerVars,
                              started, processed>>
          ELSE start_sampler(opened)

\* rerun_specific_test: if samples: write_test_row_to_excel(...)
RerunCommit ==
    /\ pc = "write" /\ choice = "3"
    /\ IF has_samples(samples)
       THEN \E locked \in BOOLEAN :
               write_test_row_to_excel(test_header, samples, locked)
       ELSE UNCHANGED storeVars
    /\ pc' = "done"
    /\ UNCHANGED actionFrame

\* run_power_tests: the write after a run
SequenceCommit == choice = "1" /\ Commit

\* KeyboardInterrupt at the menu prompt, at a prompt of run_power_tests or of
\* rerun_specific_test, or in the calculations
Interrupt ==
    /\ pc \in {"menu", "begin", "pause", "calc", "calc2", "rerun", "confirm"}
    /\ pc' = interrupt_lands(pc)
    /\ UNCHANGED <<storeVars, actionFrame>>

InitMenu ==
    /\ EmptyStore /\ NoParse
    /\ config = MenuConfig
    /\ pc = "menu"
    /\ choice = "none"
    /\ default_excel_file = "default"
    /\ test_numbers = <<>>
    /\ idx = 0
    /\ now = 0
    /\ global_start_time = 0
    /\ elapsed_time = 0
    /\ dev = "none"
    /\ end_time = 0
    /\ samples = <<>>
    /\ sample_count = 0
    /\ recent_samples = <<>>
    /\ queries = <<>>
    /\ exit_path = "none"
    /\ close_calls = 0
    /\ open_channels = 0
    /\ roundtrip = 0
    /\ started = <<>>
    /\ processed = <<>>

NextMenu ==
    \/ Choose \/ Return \/ Interrupt
    \/ Calc \/ Calc2
    \/ RerunSelect \/ RerunStart \/ RerunCommit
    \/ Begin \/ Finish \/ Skip \/ Take \/ Wait \/ WaitInterrupt \/ StartSampler
    \/ Poll \/ EndSampler \/ SequenceCommit \/ Resume

SpecMenu == InitMenu /\ [][NextMenu]_vars

---------------------------------------------------------------------------
(* The sheet before and after the last operation *)

HasSheet(exists, wb) == exists /\ SheetName \in DOMAIN wb
Sheet == sheets[SheetName]
PrevSheet == prev.sheets[SheetName]
PrevHasSheet == HasSheet(prev.fileExists, prev.sheets)

HeaderRow(g) == IF g.rows = <<>> THEN <<>> ELSE g.rows[1]
ColumnsNamed(g, name) ==
    {j \in 1..Len(HeaderRow(g)) : HeaderRow(g)[j] = StrCell(name)}
ColumnOf(g, j) == [i \in 1..(Len(g.rows) - 1) |-> g.rows[i + 1][j]]
RunNames == {r.name : r \in Runs}
TapColumns(g) == {c \in 1..MaxColumn(g) : CellAt(g, 1, c) = StrCell(TapText)}
IsAveraged(g) == CellAt(g, 1, 1) = StrCell(AveragesText)

\* the value of an '=AVERAGE(...)' cell: the numbers of its range, as
\* sum and count
AverageRows(g, cell) ==
    {r \in cell.refs[2]..cell.refs[3] : CellAt(g, r, cell.refs[1]).t = "num"}
RECURSIVE SumCells(_, _, _)
SumCells(g, c, R) ==
    IF R = {} THEN 0
    ELSE LET r == CHOOSE x \in R : TRUE IN CellAt(g, r, c).n + SumCells(g, c, R \ {r})
AverageSum(g, cell) == SumCells(g, cell.refs[1], AverageRows(g, cell))
AverageCount(g, cell) == Cardinality(AverageRows(g, cell))

---------------------------------------------------------------------------
(* Claims *)

\* C1: a write_test_row_to_excel call keeps every column previously written
\* under a different test name, with the values it held (trailing missing
\* values apart), whatever the sample counts.
C1_OtherColumnsKept ==
    (call.op = "write" /\ ret = "ok" /\ PrevHasSheet) =>
        \A j \in 1..Len(HeaderRow(PrevSheet)) :
            LET h == HeaderRow(PrevSheet)[j] IN
            (h.t = "str" /\ h.s \in RunNames /\ h.s # call.name) =>
                \E k \in ColumnsNamed(Sheet, h.s) :
                    TrimRight(ColumnOf(Sheet, k)) = TrimRight(ColumnOf(PrevSheet, j))

\* C2: writing again under a test name the sheet already has a column for
\* leaves exactly one column of that name, holding the new samples' values.
C2_RewriteReplaces ==
    (call.op = "write" /\ ret = "ok" /\ PrevHasSheet
        /\ ColumnsNamed(PrevSheet, call.name) # {}) =>
        /\ Cardinality(ColumnsNamed(Sheet, call.name)) = 1
        /\ \A k \in ColumnsNamed(Sheet, call.name) :
              ColumnOf(Sheet, k) = numeric_samples(call.samples)

C2_Witness ==
    /\ call.op = "write" /\ ret = "ok" /\ PrevHasSheet
    /\ \E j \in ColumnsNamed(PrevSheet, call.name) :
          ColumnOf(PrevSheet, j) # numeric_samples(call.samples)
    /\ Len(HeaderRow(Sheet)) > 1

\* C3: the Total Annual Power written equals
\* (8760/1000) * (off*0.15 + shortidle*0.45 + longidle*0.1 + sleep*0.3) of
\* the row-2 averages; it is 90.666 for the averages 5, 20, 3 and 1.
\* Averages are sum/count in tenths: both sides are multiplied by the product
\* of the four counts, and the value is in units of 1/100000.
C3_TapFormula ==
    (call.op = "tap" /\ ret = "ok") =>
        LET df == ReadExcel(Sheet, 2)
            col(name) == CHOOSE j \in 1..Len(df.cols) :
                            df.cols[j].t = "str"
                            /\ RemoveSpaces(StrLower(df.cols[j].s)) = name
            cols == <<col(OffText), col(ShortIdleText), col(LongIdleText),
                      col(SleepText)>>
            tap == CellAt(Sheet, 2, CHOOSE c \in TapColumns(Sheet) : TRUE)
            cnt(c) == AverageCount(Sheet, CellAt(Sheet, 2, c))
            sum(c) == AverageSum(Sheet, CellAt(Sheet, 2, c))
            all == cnt(cols[1]) * cnt(cols[2]) * cnt(cols[3]) * cnt(cols[4])
            avg(c) == sum(c) * (all \div cnt(c))
            weighted(cs) == 876 * (15 * avg(cs[1]) + 45 * avg(cs[2])
                                   + 10 * avg(cs[3]) + 30 * avg(cs[4]))
        IN (\A i \in 1..4 : CellAt(Sheet, 2, cols[i]).t = "avg" /\ cnt(cols[i]) > 0) =>
              /\ weighted(tap.refs) = weighted(cols)
              /\ (\A i \in 1..4 : sum(cols[i]) = <<50, 200, 30, 10>>[i] * cnt(cols[i]))
                    => weighted(tap.refs) = 9066600 * all

\* C4 as stated: the second of two add_averages calls on a sheet returns
\* success and changes nothing.
C4_SecondCallSucceeds ==
    (call.op = "averages" /\ prev.op = "averages" /\ PrevHasSheet) =>
        ret = "ok" /\ sheets = prev.sheets

\* C4 amended: the second of two add_averages calls on a sheet changes nothing
\* and returns what the first returned: success if the first succeeded,
\* failure if the first failed for want of data.
C4_Idempotent ==
    (call.op = "averages" /\ prev.op = "averages" /\ PrevHasSheet) =>
        /\ sheets = prev.sheets
        /\ ret = prev.ret
        /\ (ret = "ok" <=> IsAveraged(Sheet))

C4_Witness ==
    /\ call.op = "averages" /\ prev.op = "averages" /\ PrevHasSheet
    /\ prev.ret = "ok" /\ ret = "ok"
    /\ IsAveraged(Sheet) /\ Sheet.rows[2][1].t = "avg"

\* C5: totalAnnualPower on a sheet whose cell A1 is not 'Averages' returns
\* failure and writes nothing.
C5_NeedsAverages ==
    (call.op = "tap" /\ PrevHasSheet /\ ~IsAveraged(PrevSheet)) =>
        ret = "fail" /\ sheets = prev.sheets

C5_Witness ==
    /\ call.op = "tap" /\ PrevHasSheet /\ ~IsAveraged(PrevSheet)
    /\ \A name \in RunNames : ColumnsNamed(PrevSheet, name) # {}
    /\ ret = "fail" /\ missing = <<>>

\* the required names no header of the loaded sheet matches, lower-cased and
\* with its spaces removed
AbsentNames(df) ==
    {columns_needed[i] : i \in 1..Len(columns_needed)} \
        {RemoveSpaces(StrLower(df.cols[j].s)) :
            j \in {k \in 1..Len(df.cols) : df.cols[k].t = "str"}}

PrevLoaded == load_workbook(prev.fileExists, prev.sheets)

\* C6: totalAnnualPower matches the headers lower-cased and without spaces;
\* the missing list it reports is exactly the absent names, and when a name
\* is absent it returns failure and writes nothing.
C6_MissingColumns ==
    (call.op = "tap" /\ PrevLoaded.ok) =>
        /\ {missing[i] : i \in 1..Len(missing)} = AbsentNames(PrevLoaded.df)
        /\ AbsentNames(PrevLoaded.df) # {} => ret = "fail" /\ sheets = prev.sheets

C6_Witness ==
    /\ call.op = "tap" /\ PrevLoaded.ok /\ IsAveraged(PrevSheet)
    /\ missing = <<SleepText>> /\ ret = "fail"
    /\ \E j \in 1..Len(PrevLoaded.df.cols) :
          PrevLoaded.df.cols[j] = StrCell(NameShortIdle)

\* the columns of the averaged sheet that carry a header name in row 3
DataColumns(g) == {c \in 1..MaxColumn(g) : CellAt(g, 3, c) # Blank}

\* C7: after a successful totalAnnualPower row 1 holds exactly one
\* 'Total Annual Power' header: a first call puts it right after the last
\* data column, a later call rewrites the same column with the same formula.
C7_OneTapColumn ==
    (call.op = "tap" /\ ret = "ok") =>
        /\ Cardinality(TapColumns(Sheet)) = 1
        /\ TapColumns(PrevSheet) = {} =>
              TapColumns(Sheet) = {MaxOf(DataColumns(PrevSheet)) + 1}
        /\ TapColumns(PrevSheet) # {} =>
              /\ TapColumns(Sheet) = TapColumns(PrevSheet)
              /\ \A c \in TapColumns(PrevSheet) :
                    CellAt(PrevSheet, 2, c).t = "tap" => sheets = prev.sheets

C7_Witness ==
    /\ call.op = "tap" /\ ret = "ok" /\ prev.op = "tap" /\ prev.ret = "ok"
    /\ TapColumns(PrevSheet) # {}
    /\ Cardinality(TapColumns(Sheet)) = 1

---------------------------------------------------------------------------
(* The sequence as the scheduler has run it so far *)

\* the start offset of a test, in seconds
OffsetOf(num) == parse_time_value(Setting(config, num).start)

\* the test has a name and a duration but no start offset
NoOffset(num) ==
    /\ Setting(config, num).header # <<>>
    /\ Setting(config, num).start.k = "none"
    /\ parse_time_value(Setting(config, num).duration) > 0

\* the place of a test in the configuration
DeclaredAt(num) == CHOOSE k \in 1..Len(config) : config[k].num = num

StartedNums == {started[j].num : j \in 1..Len(started)}

(* C8: the Sampler of a test with start offset S is never started while the
   global elapsed time, measured from the global timer origin, is less than
   S: every Sampler start so far happened at a global elapsed time of at
   least the test's offset, and while a Sampler runs the global elapsed time
   is at least the offset of its test. *)
C8_NotBeforeOffset ==
    /\ \A j \in 1..Len(started) :
          Setting(config, started[j].num).start.k # "none"
              => started[j].at >= OffsetOf(started[j].num)
    /\ pc = "poll" => now - global_start_time >= OffsetOf(test_num)

\* two tests with offsets 0 and 2 minutes; the Sampler of the second runs
C8_Witness ==
    /\ Len(config) = 2
    /\ Setting(config, Num1).start = Minutes(0)
    /\ Setting(config, Num2).start = Minutes(2)
    /\ Len(started) = 2
    /\ started[1].num = Num1 /\ started[2].num = Num2
    /\ pc = "poll" /\ dev = "open"

(* C9 as stated: a test entry with a name and a duration but no start offset
   is run: when the sequence is over its Sampler has been started. *)
C9_RunsWithoutOffset ==
    pc = "done" =>
        \A k \in 1..Len(config) :
            NoOffset(config[k].num) => config[k].num \in StartedNums

(* C9 amended: a test entry with a name and a duration but no start offset
   is not run: no Sampler is ever started for it and the scheduler never
   waits for it; it is passed over and the sequence goes on, so that every
   test has been reached when the sequence is over. *)
C9_SkippedWithoutOffset ==
    /\ \A j \in 1..Len(started) : ~NoOffset(started[j].num)
    /\ pc \in {"wait", "poll", "write", "pause"} => ~NoOffset(test_num)
    /\ pc = "done" => processed = test_numbers

\* the sequence is over; it had a test without start offset, and the test
\* after it has run
C9_Witness ==
    /\ pc = "done"
    /\ \E k \in 1..(Len(config) - 1) :
          /\ NoOffset(config[k].num)
          /\ config[k + 1].num \in StartedNums

(* C10: the tests are run strictly in their declaration order: of any two
   tests whose Samplers have been started, the one started first is the one
   declared first. *)
C10_DeclarationOrder ==
    \A i, j \in 1..Len(started) :
        i < j => DeclaredAt(started[i].num) < DeclaredAt(started[j].num)

\* the test the scheduler handled last
LastNum == test_numbers[idx - 1]

(* C11: the time spent blocked on the acknowledgment of a pause is excluded
   from the global clock: whenever the scheduler is between two tests, and so
   immediately after resuming, the global elapsed time equals the elapsed
   time recorded when the last run finished, before the pause; and the
   recorded elapsed time never runs ahead of the global elapsed time that
   later start-offset comparisons are made with. *)
C11_PauseExcluded ==
    /\ pc = "loop" => now - global_start_time = elapsed_time
    /\ pc \in {"wait", "poll", "write", "pause"}
          => elapsed_time <= now - global_start_time

\* the scheduler has just resumed after a pause of some length that followed
\* a run
C11_Witness ==
    /\ pc = "loop" /\ idx > 1
    /\ LastNum \in StartedNums
    /\ Setting(config, LastNum).pause
    /\ global_start_time > 0
    /\ elapsed_time > 0

\* the run whose Sampler was started last, and the name it ran under
LastStarted == started[Len(started)].num
LastHeader == Setting(config, LastStarted).header

(* C12: the samples of a completed run are written to the report before the
   wait or the Sampler of the next run begins: whenever the scheduler is
   past the write of a run that returned samples (between tests, waiting for
   the next test, pausing, or done), the last store operation is the write
   of exactly that run's samples under that run's name, and where it
   succeeded the sheet holds them as the column of that name. *)
C12_WrittenBeforeNext ==
    (pc \in {"loop", "wait", "pause", "done"} /\ samples # <<>>) =>
        /\ call = [op |-> "write", name |-> LastHeader, samples |-> samples]
        /\ ret = "ok" =>
              /\ HasSheet(fileExists, sheets)
              /\ \E k \in ColumnsNamed(Sheet, LastHeader) :
                    ColumnOf(Sheet, k) = numeric_samples(samples)

\* the scheduler waits for the second run; the first returned samples, and
\* they are in the report
C12_Witness ==
    /\ pc = "wait" /\ ~wait_over(elapsed_time, start_time)
    /\ Len(started) = 1 /\ samples # <<>>
    /\ ret = "ok"
    /\ \E k \in ColumnsNamed(Sheet, LastHeader) :
          ColumnOf(Sheet, k) = numeric_samples(samples)

---------------------------------------------------------------------------
(* One Sampler run: the queries it made and what became of them *)

\* readSerialData returned (None, None, None), or a text that is empty
Failed(r) == r = <<>>
Succeeded(r) == ~Failed(r)

FailedQueries == {i \in 1..Len(queries) : Failed(queries[i])}

\* serialFunction has opened the device and has returned
Returned == pc = "write" /\ exit_path # "none"

(* C13: a query that fails or returns no data adds no sample and does not
   end the polling loop: the samples are at every moment exactly the
   responses of the successful queries so far, in the order of the queries,
   whatever failed queries lie between them, and as long as no interrupt or
   exception has ended the run the loop goes on polling until the end time.
   *)
C13_FailedQuerySkipped ==
    /\ samples = SelectSeq(queries, Succeeded)
    /\ (queries # <<>> /\ exit_path \in {"none", "elapsed"}) =>
          \/ pc = "poll" /\ dev = "open"
          \/ exit_path = "elapsed" /\ ~(now < end_time)

\* polling goes on after a failed query, and a later query has succeeded and
\* has been appended
C13_Witness ==
    /\ pc = "poll" /\ now < end_time
    /\ Len(queries) >= 2
    /\ Failed(queries[1])
    /\ Succeeded(queries[Len(queries)])
    /\ samples # <<>>

(* C14: a Sampler run against a channel whose every query fails returns an
   empty sample list without raising and closes the channel exactly once:
   when serialFunction has returned from a run that made queries of which
   none succeeded, the list it returned is empty, the device is closed and
   close() was called once. *)
C14_AllQueriesFail ==
    (Returned /\ queries # <<>> /\ FailedQueries = 1..Len(queries)) =>
        /\ samples = <<>>
        /\ dev = "closed"
        /\ close_calls = 1

\* the run polled to its end time, more than once, and every query failed
C14_Witness ==
    /\ Returned /\ exit_path = "elapsed"
    /\ Len(queries) >= 2 /\ FailedQueries = 1..Len(queries)
    /\ samples = <<>> /\ close_calls = 1

(* C15: whenever serialFunction has opened the device, close() is invoked
   before it returns, on every exit path (duration elapsed, user interrupt,
   unexpected exception in the loop): the device is open only while the
   polling loop runs, and once the loop has ended in any of the three ways
   the device is closed, by one close() call. *)
C15_ClosedOnEveryPath ==
    /\ dev = "open" => pc = "poll"
    /\ exit_path \in {"elapsed", "interrupt", "exception"} =>
          dev = "closed" /\ close_calls = 1

\* serialFunction has returned after an exception in the middle of the loop
C15_Witness ==
    /\ Returned /\ exit_path = "exception"
    /\ now < end_time /\ queries # <<>>
    /\ dev = "closed"

(* C16: a user interrupt ends the polling loop early, and serialFunction
   returns exactly the samples collected before the interrupt, in capture
   order; the scheduler then writes those samples to the report: after an
   interrupted run the returned list is the successful responses of the
   queries made, in order, and once the scheduler is past the write the last
   store operation is the write of that list under the run's name. *)
C16_InterruptKeepsSamples ==
    exit_path = "interrupt" =>
        /\ samples = SelectSeq(queries, Succeeded)
        /\ (pc \in {"loop", "wait", "pause", "done"} /\ samples # <<>>) =>
              call = [op |-> "write", name |-> LastHeader, samples |-> samples]

\* a run was interrupted before its end time with a sample collected, and the
\* sample is in the report
C16_Witness ==
    /\ exit_path = "interrupt" /\ now < end_time
    /\ pc \in {"loop", "pause"}
    /\ samples # <<>> /\ Len(queries) > Len(samples)
    /\ call = [op |-> "write", name |-> LastHeader, samples |-> samples]
    /\ ret = "ok"
    /\ \E k \in ColumnsNamed(Sheet, LastHeader) :
          ColumnOf(Sheet, k) = numeric_samples(samples)

---------------------------------------------------------------------------
(* parse_time_value *)

\* the places of a ':' that has an integer on either side
MinutesSeconds(s) ==
    {i \in 1..Len(s) :
        /\ s[i] = ":"
        /\ IsInt(SubSeq(s, 1, i - 1))
        /\ IsInt(SubSeq(s, i + 1, Len(s)))}

(* C17: parse_time_value returns the number itself for a numeric input,
   M + S/60 for a text 'M:SS' with integers M and S, and 0 for every other
   input (a text without ':', with more than two ':'-separated parts, or
   with a part that is not an integer). Results are in seconds: 60 times
   the minutes. *)
C17_ParseTimeValue ==
    parse_result # <<>> =>
        LET v == time_value
            r == parse_result[1]
        IN IF v.k = "num" THEN r = SecondsPerMinute * v.m
           ELSE IF v.k = "str" /\ MinutesSeconds(v.s) # {}
           THEN \A i \in MinutesSeconds(v.s) :
                   r = SecondsPerMinute * DecVal(SubSeq(v.s, 1, i - 1))
                       + DecVal(SubSeq(v.s, i + 1, Len(v.s)))
           ELSE r = 0

\* '1:30' has been parsed, to a minute and a half
C17_Witness ==
    /\ time_value = Text(<<"1", ":", "3", "0">>)
    /\ parse_result = <<90>>

---------------------------------------------------------------------------
(* Tests that are not run, and runs that return nothing *)

\* the entry has no name, or no duration, or a duration that parses to 0
Incomplete(num) ==
    \/ Setting(config, num).header = <<>>
    \/ Setting(config, num).duration.k = "none"
    \/ parse_time_value(Setting(config, num).duration) = 0

StartedHeaders == {Setting(config, n).header : n \in StartedNums}

(* C18: a test entry whose name or duration is missing, or whose duration
   parses to 0, is skipped: no Sampler is ever started for it and the
   scheduler never waits for it, nothing is written for it (every write is
   the write of a started test), and every later test is still processed,
   so that the loop has taken up every test when the sequence is over. *)
C18_IncompleteSkipped ==
    /\ \A j \in 1..Len(started) : ~Incomplete(started[j].num)
    /\ pc \in {"wait", "poll", "write", "pause"} => ~Incomplete(test_num)
    /\ call.op = "write" => call.name \in StartedHeaders
    /\ \A j \in 1..Len(processed) : processed[j] = test_numbers[j]
    /\ pc = "done" => processed = test_numbers

\* the sequence is over; entries without a name, without a duration and with
\* a duration of 0 were passed over, and the test among them has run and is
\* in the report
C18_Witness ==
    /\ pc = "done"
    /\ \E a, b, c \in 1..Len(processed) :
          /\ a < c /\ c < b
          /\ Setting(config, processed[a]).header = <<>>
          /\ Setting(config, processed[a]).duration.k # "none"
          /\ parse_time_value(Setting(config, processed[b]).duration) = 0
          /\ Setting(config, processed[b]).header # <<>>
          /\ processed[c] \in StartedNums
    /\ call.op = "write" /\ ret = "ok"

(* C19: if opening the device fails for a test, that run returns an empty
   sample list and nothing is written for it: as long as the last Sampler
   call is one that could not open the device, the list it returned is
   empty, no query was made, the last store operation is not a write under
   that test's name and the report has no column of that name; and the
   scheduler goes on to every remaining test, so that the loop has taken up
   every test when the sequence is over. *)
C19_OpenFailure ==
    /\ (started # <<>> /\ dev = "none") =>
          /\ samples = <<>> /\ queries = <<>> /\ close_calls = 0
          /\ call.name # LastHeader
          /\ HasSheet(fileExists, sheets) => ColumnsNamed(Sheet, LastHeader) = {}
    /\ pc = "done" => processed = test_numbers

\* the sequence is over; the device could not be opened for the first test,
\* and the last test has run and is in the report
C19_Witness ==
    /\ pc = "done"
    /\ Len(started) >= 2
    /\ ~HasSheet(prev.fileExists, prev.sheets)
    /\ call.op = "write" /\ ret = "ok" /\ call.name = LastHeader
    /\ ColumnsNamed(Sheet, Setting(config, started[1].num).header) = {}

---------------------------------------------------------------------------
(* Numeric coercion *)

\* the sample texts of the model that are numbers, with their values in
\* tenths
NumberOf ==
    (Txt1 :> 10) @@ (Txt3 :> 30) @@ (Txt5 :> 50) @@ (Txt20 :> 200)
    @@ (Txt101 :> 101) @@ (Txt103 :> 103) @@ (Txt105 :> 105)

\* the cell a sample text is to become
Coerced(text) ==
    IF text \in DOMAIN NumberOf THEN NumCell(NumberOf[text]) ELSE Blank

(* C20: writing a sample list of length n to a new sheet yields one column
   of exactly n rows, in capture order, in which each position holds the
   parsed number if the sample text is numeric and the missing-value marker
   otherwise, and the write succeeds whatever the texts are; the samples
   "10.1", "10.3", "bad", "10.5" give 4 rows with the marker in position 3.
   *)
C20_Coercion ==
    (call.op = "write" /\ ~prev.fileExists) =>
        /\ ret = "ok"
        /\ HasSheet(fileExists, sheets)
        /\ HeaderRow(Sheet) = <<StrCell(call.name)>>
        /\ Len(ColumnOf(Sheet, 1)) = Len(call.samples)
        /\ \A i \in 1..Len(call.samples) :
              ColumnOf(Sheet, 1)[i] = Coerced(call.samples[i])
        /\ call.samples = <<Txt101, Txt103, TxtBad, Txt105>> =>
              ColumnOf(Sheet, 1) = <<NumCell(101), NumCell(103), Blank, NumCell(105)>>

\* "10.1", "10.3", "bad", "10.5" have been written under "TestA"
C20_Witness ==
    /\ call = [op |-> "write", name |-> NameTestA,
               samples |-> <<Txt101, Txt103, TxtBad, Txt105>>]
    /\ ret = "ok"
    /\ Len(ColumnOf(Sheet, 1)) = 4
    /\ ColumnOf(Sheet, 1)[3] = Blank

---------------------------------------------------------------------------
(* Writes into a file that is there already *)

\* the sheets of a workbook other than the report's
OtherSheets(wb) == DOMAIN wb \ {SheetName}

(* C21: when the workbook file or the target sheet does not exist, or the
   file is not one the sheet can be read from, write_test_row_to_excel
   succeeds (it is not kept from the file by another program), and the
   target sheet afterwards holds exactly one column, the current run's, with
   the run's samples. *)
C21_FreshSheet ==
    (call.op = "write" /\ ~PrevHasSheet /\ ~file_locked) =>
        /\ ret = "ok"
        /\ HasSheet(fileExists, sheets)
        /\ HeaderRow(Sheet) = <<StrCell(call.name)>>
        /\ ColumnOf(Sheet, 1) = numeric_samples(call.samples)
        /\ \A i \in 1..Len(Sheet.rows) : Len(Sheet.rows[i]) = 1

\* a run has been written into a workbook that had another sheet and no
\* report sheet
C21_Witness ==
    /\ call.op = "write" /\ ret = "ok"
    /\ prev.fileExists
    /\ OtherSheets(prev.sheets) # {} /\ SheetName \notin DOMAIN prev.sheets
    /\ Len(call.samples) > 1
    /\ HeaderRow(Sheet) = <<StrCell(call.name)>>

(* C22: writing a run into one sheet of an existing workbook leaves every
   other sheet of the workbook present and unchanged. *)
C22_OtherSheetsKept ==
    (call.op = "write" /\ ret = "ok" /\ prev.fileExists) =>
        \A name \in OtherSheets(prev.sheets) :
            name \in DOMAIN sheets /\ sheets[name] = prev.sheets[name]

(* C23: when the report file is locked, write_test_row_to_excel returns
   failure to its caller without raising and the report is as it was; the
   caller still has the run's samples (until the Sampler of the next run is
   called), and the test sequence is not aborted: the loop takes up every test. *)
C23_LockedFile ==
    /\ (call.op = "write" /\ file_locked) =>
          /\ ret = "fail"
          /\ fileExists = prev.fileExists /\ sheets = prev.sheets
          /\ (pc \in {"loop", "wait", "pause", "done"} /\ call.name = LastHeader)
                => samples = call.samples /\ samples # <<>>
    /\ pc = "done" => processed = test_numbers

\* the write of the run before last found the file locked; the report of the
\* run before that is still there, and the Sampler of the next test runs
C23_Witness ==
    /\ call.op = "write" /\ file_locked /\ ret = "fail"
    /\ pc = "poll" /\ Len(started) = 3
    /\ call.name = Setting(config, started[2].num).header
    /\ HasSheet(fileExists, sheets)
    /\ ColumnsNamed(Sheet, Setting(config, started[1].num).header) # {}

(* C24: at every point of a test sequence at most one device channel is
   open: a channel is open exactly while the polling loop of a Sampler run
   goes on, and none is open while the scheduler is between tests, waits,
   writes the report, is paused or is done. *)
C24_OneChannel ==
    /\ open_channels <= 1
    /\ pc = "poll" => open_channels = 1 /\ dev = "open"
    /\ pc # "poll" => open_channels = 0 /\ dev # "open"

\* the Sampler of a second test polls on its own channel; the first run had a
\* channel too, and its samples are in the report
C24_Witness ==
    /\ pc = "poll" /\ open_channels = 1
    /\ Len(started) = 2
    /\ call.op = "write" /\ call.name = Setting(config, started[1].num).header

---------------------------------------------------------------------------
(* The number of samples of a run *)

\* floor(D*60 / roundtrip), D*60 being the duration in seconds
FullRoundTrips == duration[1] \div roundtrip

(* C25: for every duration D >= 0 and a channel whose every query takes the
   same round-trip time and returns a non-empty response, a Sampler run
   returns between floor(D*60/roundtrip) - 1 and floor(D*60/roundtrip) + 1
   samples, all non-empty, and it terminates. *)
C25_SampleCount ==
    /\ [](pc = "write" =>
            /\ FullRoundTrips - 1 <= Len(samples)
            /\ Len(samples) <= FullRoundTrips + 1
            /\ \A i \in 1..Len(samples) : samples[i] # <<>>)
    /\ <>(pc = "write")

\* a run has returned one sample more than the full round trips of its
\* duration
C25_Witness ==
    /\ pc = "write" /\ exit_path = "elapsed"
    /\ roundtrip > 1 /\ FullRoundTrips >= 2
    /\ Len(samples) = FullRoundTrips + 1

\* the last n elements of a sequence
LastOf(seq, n) == SubSeq(seq, Len(seq) - n + 1, Len(seq))

(* C28: at every iteration of the Sampler loop the display window
   recent_samples has at most 15 entries and is the last min(15, n) of the n
   samples collected so far, in the same order. *)
C28_RecentWindow ==
    /\ Len(recent_samples) <= 15
    /\ recent_samples =
          LastOf(samples, IF Len(samples) < 15 THEN Len(samples) ELSE 15)

\* the loop goes on with more than 15 samples collected, the first of which
\* have left the window
C28_Witness ==
    /\ pc = "poll"
    /\ Len(samples) > 16
    /\ Len(recent_samples) = 15
    /\ recent_samples[1] = samples[Len(samples) - 14]
    /\ recent_samples[1] # samples[1]

---------------------------------------------------------------------------
(* User interrupts *)

(* C26: a user interrupt raised while the scheduler is in the start-time
   wait loop returns control to the menu loop and does not end the process;
   no channel is open afterwards, and the report is as the last run of the
   sequence left it: the column that run wrote is in it. *)
C26_InterruptInWait ==
    /\ pc # "exit"
    /\ pc = "menu" =>
          /\ open_channels = 0 /\ dev # "open"
          /\ idx <= Len(test_numbers) /\ test_num \notin StartedNums
          /\ (call.op = "write" /\ ret = "ok") =>
                /\ HasSheet(fileExists, sheets)
                /\ \E k \in ColumnsNamed(Sheet, call.name) :
                      ColumnOf(Sheet, k) = numeric_samples(call.samples)

\* the wait for the second test was interrupted; the first run is in the
\* report
C26_Witness ==
    /\ pc = "menu"
    /\ Len(started) = 1 /\ idx = 2
    /\ elapsed_time < start_time[1]
    /\ call.op = "write" /\ ret = "ok" /\ call.name = LastHeader
    /\ ColumnsNamed(Sheet, LastHeader) # {}

(* C30: a user interrupt during a Sampler run inside a test sequence ends
   only that run: the scheduler goes on to the write, to the pause prompt if
   the test has one, and to the next configured test; it leaves the sequence
   only if the wait for a later test is interrupted, and a sequence that is
   not interrupted there takes up every test. *)
C30_InterruptEndsOneRun ==
    exit_path = "interrupt" =>
        /\ pc \in {"write", "pause", "loop", "wait", "done", "menu"}
        /\ pc = "pause" => pause_after /\ test_num = LastStarted
        /\ pc = "menu" => idx <= Len(test_numbers) /\ test_num # LastStarted
        /\ pc = "done" => processed = test_numbers

\* the run of the first test was interrupted before its end; the scheduler
\* has paused, resumed, and waits for the next test
C30_Witness ==
    /\ exit_path = "interrupt" /\ now - global_start_time < end_time
    /\ pc = "wait" /\ Len(started) = 1 /\ idx > 1
    /\ Setting(config, LastStarted).pause
    /\ global_start_time > 0


\* the rows of a sheet up to the last one that holds a value
FilledRows(g) ==
    LET full == {i \in 1..Len(g.rows) : \E j \in 1..Len(g.rows[i]) : g.rows[i][j] # Blank}
    IN IF full = {} THEN 0 ELSE MaxOf(full)

(* C27: after a first add_averages on a sheet with k data columns and r data
   rows, A1 holds 'Averages' spanning columns 1..k, row 3 holds the original
   headers in their order, rows 4..r+3 hold the original data rows in order,
   and row 2 holds for each data column c the mean over exactly rows 4..r+3
   of column c, the missing values ignored. *)
C27_AveragesLayout ==
    (call.op = "averages" /\ ret = "ok" /\ PrevHasSheet /\ ~IsAveraged(PrevSheet)) =>
        LET k == Len(HeaderRow(PrevSheet))
            r == FilledRows(PrevSheet) - 1
        IN /\ CellAt(Sheet, 1, 1) = StrCell(AveragesText)
           /\ Sheet.merged = IF k > 1 THEN k ELSE 0
           /\ \A c \in 2..k : CellAt(Sheet, 1, c) = Blank
           /\ Sheet.rows[3] = PrevSheet.rows[1]
           /\ \A i \in 1..r : Sheet.rows[i + 3] = PrevSheet.rows[i + 1]
           /\ FilledRows(Sheet) = r + 3
           /\ \A c \in 1..k :
                 LET cell == CellAt(Sheet, 2, c) IN
                 /\ cell = AvgCell(c, 4, r + 3)
                 /\ AverageRows(Sheet, cell) =
                       {i + 3 : i \in {x \in 1..r : PrevSheet.rows[x + 1][c].t = "num"}}
                 /\ AverageSum(Sheet, cell) =
                       SumCells(PrevSheet, c, {x + 1 : x \in
                           {y \in 1..r : PrevSheet.rows[y + 1][c].t = "num"}})

\* four columns and three data rows, some of them without a value
C27_Witness ==
    /\ call.op = "averages" /\ ret = "ok" /\ PrevHasSheet /\ ~IsAveraged(PrevSheet)
    /\ Len(HeaderRow(PrevSheet)) = 4 /\ FilledRows(PrevSheet) = 4
    /\ Sheet.merged = 4
    /\ \E c \in 1..4 : AverageCount(Sheet, CellAt(Sheet, 2, c)) = 2
    /\ \E c \in 1..4 : AverageCount(Sheet, CellAt(Sheet, 2, c)) = 1


(* C29: a test written again (write_test_row_to_excel, as rerun_specific_test
   calls it) on a sheet to which add_averages has been applied replaces only
   that test's data column: the 'Averages' title row, the averages row, the
   header row at row 3 and the other tests' data stay in their places, and
   the sheet is still recognised as averaged with its headers at row 3. *)
C29_RerunKeepsAverages ==
    (call.op = "write" /\ ret = "ok" /\ PrevHasSheet /\ IsAveraged(PrevSheet)
        /\ \E j \in 1..Len(PrevSheet.rows[3]) :
              PrevSheet.rows[3][j] = StrCell(call.name)) =>
        LET j == CHOOSE c \in 1..Len(PrevSheet.rows[3]) :
                    PrevSheet.rows[3][c] = StrCell(call.name)
        IN /\ IsAveraged(Sheet)
           /\ Len(Sheet.rows) >= 3
           /\ Sheet.rows[1] = PrevSheet.rows[1]
           /\ Sheet.rows[2] = PrevSheet.rows[2]
           /\ Sheet.rows[3] = PrevSheet.rows[3]
           /\ load_workbook(fileExists, sheets).df.cols = PrevSheet.rows[3]
           /\ \A c \in 1..Len(PrevSheet.rows[3]) : c # j =>
                 \A i \in 4..Len(PrevSheet.rows) :
                     CellAt(Sheet, i, c) = CellAt(PrevSheet, i, c)
           /\ \A i \in 1..Len(call.samples) :
                 CellAt(Sheet, i + 3, j) = ToNumeric(call.samples[i])


---------------------------------------------------------------------------
(* The samples of a run, from one iteration of the polling loop to the next *)

(* C33: in every state of the Sampler loop sample_count equals the length of
   samples and every element of samples is a non-empty trimmed response; from
   one iteration to the next samples only grows by an element appended at its
   end, and the end of the loop leaves it as it is. *)
C33_SamplesGrow ==
    /\ [](pc = "poll" =>
            /\ sample_count = Len(samples)
            /\ \A i \in 1..Len(samples) :
                  /\ samples[i] # <<>>
                  /\ samples[i][1] \notin {" ", "\t", "\n", "\r"}
                  /\ samples[i][Len(samples[i])] \notin {" ", "\t", "\n", "\r"}
                  /\ \E response \in RawResponses :
                        /\ Len(response) >= Len(samples[i])
                        /\ SubSeq(response, 1, Len(samples[i])) = samples[i])
    /\ [][pc = "poll" =>
            /\ Len(samples') >= Len(samples)
            /\ Len(samples') <= Len(samples) + 1
            /\ SubSeq(samples', 1, Len(samples)) = samples]_vars

\* a run that has stored two samples, with a query before them that
\* returned nothing
C33_Witness ==
    /\ pc = "poll"
    /\ Len(samples) = 2 /\ sample_count = 2
    /\ Len(queries) = 3 /\ queries[1] = <<>>


---------------------------------------------------------------------------
(* The report file a sequence starts with, and its timer *)

(* C34: run_power_tests never runs a test against a report file that was
   there before: past the prompt the file exists only once the sequence has
   written it, and holds only columns of tests the sequence has started
   (the old file was deleted after 'y', or a timestamped name is used after
   'n'); another answer leaves the scheduler at the prompt; and when the
   deletion fails the function returns with no test run, no Sampler started
   and the file as it was. *)
C34_NoOldReport ==
    /\ pc = "begin" =>
          started = <<>> /\ call.op = "none" /\ default_excel_file = "default"
    /\ pc = "returned" =>
          /\ started = <<>> /\ processed = <<>> /\ open_channels = 0
          /\ call.op = "none"
          /\ fileExists /\ sheets = OldReport
    /\ (pc \notin {"begin", "returned"} /\ fileExists) =>
          /\ call.op = "write"
          /\ \A j \in 1..Len(HeaderRow(Sheet)) :
                HeaderRow(Sheet)[j].s \in StartedHeaders
    /\ default_excel_file = "timestamped" => pc \notin {"begin", "returned"}

\* after the answer 'n': two tests have run, and the new file holds a run
C34_Witness ==
    /\ default_excel_file = "timestamped"
    /\ Len(started) = 2
    /\ fileExists /\ call.op = "write" /\ ret = "ok"
    /\ pc = "done"

(* C35: the global elapsed time of the scheduler never decreases over a test
   sequence, neither the value the scheduler holds nor the time since the
   timer origin, the recalibration of the origin after a pause included; the
   elapsed time after a test is at least the elapsed time at which the test
   started. *)
C35_ElapsedMonotone ==
    /\ []((started # <<>> /\ pc \in {"loop", "pause", "done"}) =>
            elapsed_time >= started[Len(started)].at)
    /\ [][/\ elapsed_time' >= elapsed_time
          /\ now' - global_start_time' >= now - global_start_time]_vars

\* a sequence that paused for four seconds after a test and has run another
\* test since
C35_Witness ==
    /\ pc = "done"
    /\ global_start_time = 4
    /\ Len(started) = 2
    /\ elapsed_time > started[2].at
    /\ started[2].at >= started[1].at

(* C36: a test whose start offset is less than or equal to the global elapsed
   time when it is reached starts at once: the wait loop performs no sleep
   for it. *)
C36_NoSleepWhenDue ==
    [][(pc = "wait" /\ start_time[1] <= now - global_start_time) =>
          now' = now]_vars

\* the third test, declared with the offset 0:02, is reached after the first
\* one (offset 0:03) has run: it has started at the elapsed time the
\* scheduler held when it reached it
C36_Witness ==
    /\ pc = "poll"
    /\ Len(started) = 2 /\ started[2].num = Num3
    /\ start_time[1] < started[1].at
    /\ started[2].at = elapsed_time
    /\ started[2].at > start_time[1]


---------------------------------------------------------------------------
(* The menu loop *)

(* C31: a run that returns no sample (the device did not open, every query
   failed, or the run was interrupted before the first response) causes no
   write to the report, in a sequence and in a rerun: the step that follows
   the run leaves the file as it is, so that on a rerun the column the sheet
   has for that test keeps its values. *)
C31_NoSamplesNoWrite ==
    [][(pc = "write" /\ samples = <<>>) =>
          /\ fileExists' = fileExists
          /\ sheets' = sheets
          /\ call' = call]_vars

\* a rerun of the first test whose every query failed: the column written by
\* the sequence before is still there with its two values
C31_Witness ==
    /\ choice = "3" /\ pc = "done"
    /\ dev = "closed" /\ queries # <<>> /\ samples = <<>>
    /\ call.op = "none"
    /\ fileExists /\ SheetName \in DOMAIN sheets
    /\ \E k \in ColumnsNamed(Sheet, test_header) :
          ColumnOf(Sheet, k) = <<NumCell(10), NumCell(10)>>

(* C32: once the menu loop has been entered, a user interrupt during a menu
   action (the test sequence, the calculations, the rerun, the menu prompt)
   never ends the program: it lands at the menu, with no channel open; the
   loop is left, and the program exits normally, only from the menu prompt
   with the option 'x'. *)
C32_MenuLoop ==
    /\ [](/\ pc # "exit"
          /\ pc = "exited" => choice = "x"
          /\ pc = "menu" => open_channels = 0)
    /\ [][pc' = "exited" => (pc = "menu" /\ choice' = "x")]_vars

\* a sequence left by an interrupt after its first run: the menu is up
C32_Witness ==
    /\ pc = "menu" /\ choice = "1"
    /\ Len(started) = 1 /\ idx <= Len(test_numbers)
    /\ fileExists

===========================================================================
